---- MODULE Spec2Model ----
(***************************************************************************)
(* Model of the English_Tutor client: the React shell (src/App.tsx), the   *)
(* GeminiLiveService session controller                                    *)
(* (src/services/geminiLiveService.ts) and the audio helpers               *)
(* (src/types.ts).                                                         *)
(*                                                                         *)
(* Text is a sequence of tokens (a fragment is a short token sequence and  *)
(* string concatenation is \o).  Time on the audio output clock is counted *)
(* in frames of the 24000 Hz inbound stream; Date.now() is counted in      *)
(* milliseconds.  Every `await` of the source is a suspension point: the   *)
(* code before it and the code after it are separate steps.                *)
(***************************************************************************)
EXTENDS Integers, Sequences, FiniteSets, TLC

(* ------------------------------ bounds --------------------------------- *)
MaxSessions == 2
MaxDisconnects == 2
MaxConnMsgs == 1
MaxMsgs == 3
MaxClock == 1
MaxFrags == 4
MaxAudioClock == 2
MaxAudioMsgs == 3
MaxOver == 2

(* --------------------------- program values ---------------------------- *)
DISCONNECTED == "DISCONNECTED"
CONNECTING == "CONNECTING"
CONNECTED == "CONNECTED"
ERROR == "ERROR"
ConnectionState == {DISCONNECTED, CONNECTING, CONNECTED, ERROR}

Roles == {"user", "model"}

Sessions == 1..MaxSessions

None == <<>>
Some(x) == <<x>>
IsSome(o) == Len(o) > 0
Val(o) == o[1]

VARIABLES
    mounted,          \* the App component is mounted
    apiKey,           \* process.env.API_KEY is set
    connectionState,  \* App state
    error,            \* App state: TRUE when the banner text is set
    liveClientRef,    \* App ref: 0 is null, otherwise the session
    transcripts,      \* App state: the turn list
    volume,           \* App state
    nSessions,        \* GeminiLiveService instances constructed so far
    svc,              \* per instance: its fields and the objects it owns
    calls,            \* disconnect() invocations in flight
    pending,          \* handleMessage invocations suspended at the decode
    now,              \* Date.now()
    nOff,             \* history: disconnect() calls started by the UI
    emitted,          \* history: transcript callbacks of the last step
    lastMsg,          \* history: the message whose handling began last
    fragLog,          \* history: the arguments handleTranscript was given
    codec             \* one audio sample on its way through the PCM codec

vars == <<mounted, apiKey, connectionState, error, liveClientRef, transcripts,
          volume, nSessions, svc, calls, pending, now, nOff, emitted, lastMsg,
          fragLog, codec>>

(* The state as one record, so that a handler is a function on states.     *)
World ==
    [mounted |-> mounted, apiKey |-> apiKey, connectionState |-> connectionState,
     error |-> error, liveClientRef |-> liveClientRef, transcripts |-> transcripts,
     volume |-> volume, nSessions |-> nSessions, svc |-> svc, calls |-> calls,
     pending |-> pending, now |-> now, nOff |-> nOff, emitted |-> emitted,
     lastMsg |-> lastMsg, fragLog |-> fragLog, codec |-> codec]

Commit(w) ==
    /\ mounted' = w.mounted
    /\ apiKey' = w.apiKey
    /\ connectionState' = w.connectionState
    /\ error' = w.error
    /\ liveClientRef' = w.liveClientRef
    /\ transcripts' = w.transcripts
    /\ volume' = w.volume
    /\ nSessions' = w.nSessions
    /\ svc' = w.svc
    /\ calls' = w.calls
    /\ pending' = w.pending
    /\ now' = w.now
    /\ nOff' = w.nOff
    /\ emitted' = w.emitted
    /\ lastMsg' = w.lastMsg
    /\ fragLog' = w.fragLog
    /\ codec' = w.codec

(* A GeminiLiveService right after its constructor.  inCtx/outCtx are the  *)
(* states of the two AudioContext objects, micLive the MediaStream's       *)
(* tracks, tap the ScriptProcessor callback, channel the remote session;   *)
(* the fields of the same names as the source hold TRUE when non-null.     *)
NewService ==
    [pc |-> "none",
     sessionPromise |-> FALSE, inputAudioContext |-> FALSE,
     outputAudioContext |-> FALSE, inputSource |-> FALSE, processor |-> FALSE,
     outputNode |-> FALSE, nextStartTime |-> 0,
     currentInputTranscription |-> <<>>, currentOutputTranscription |-> <<>>,
     stream |-> FALSE,
     inCtx |-> "none", outCtx |-> "none", outClock |-> 0, micLive |-> FALSE,
     tap |-> FALSE, channel |-> "none",
     statusLog |-> <<>>, opened |-> FALSE, cancelled |-> FALSE,
     failed |-> FALSE, torn |-> FALSE, handled |-> 0, interruptions |-> 0,
     scheduled |-> <<>>, dropped |-> 0, packets |-> 0]

(* ------------------------- App.tsx: callbacks -------------------------- *)
(* React drops a state update of a component that is no longer mounted.    *)
setConnectionState(w, v) ==
    IF w.mounted THEN [w EXCEPT !.connectionState = v] ELSE w

setVolume(w, v) ==
    IF w.mounted THEN [w EXCEPT !.volume = v] ELSE w

(* handleTranscript with the fragment taken for a delta and appended to    *)
(* the turn's text instead of replacing it.                                *)
handleTranscript_appendsDelta(prev, text, role, isComplete, t) ==
    LET n == Len(prev) IN
    IF n > 0 /\ prev[n].role = role /\ ~prev[n].isComplete
    THEN [prev EXCEPT ![n] = [@ EXCEPT !.text = @ \o text, !.isComplete = isComplete]]
    ELSE Append(prev, [id |-> t, role |-> role, text |-> text,
                       isComplete |-> isComplete])

(* handleTranscript without the test of the last turn's completeness: a    *)
(* fragment of the same role is merged into a turn that is complete.       *)
handleTranscript_mergesComplete(prev, text, role, isComplete, t) ==
    LET n == Len(prev) IN
    IF n > 0 /\ prev[n].role = role
    THEN [prev EXCEPT ![n] = [@ EXCEPT !.text = text, !.isComplete = isComplete]]
    ELSE Append(prev, [id |-> t, role |-> role, text |-> text,
                       isComplete |-> isComplete])

(* The updater handleTranscript passes to setTranscripts; t is Date.now(). *)
handleTranscript(prev, text, role, isComplete, t) ==
    LET n == Len(prev) IN
    IF n > 0 /\ prev[n].role = role /\ ~prev[n].isComplete
    THEN [prev EXCEPT ![n] = [@ EXCEPT !.text = text, !.isComplete = isComplete]]
    ELSE Append(prev, [id |-> t, role |-> role, text |-> text,
                       isComplete |-> isComplete])

setTranscripts(w, text, role, isComplete) ==
    IF w.mounted
    THEN [w EXCEPT !.transcripts = handleTranscript(@, text, role, isComplete, w.now)]
    ELSE w

(* -------------------- GeminiLiveService: callbacks --------------------- *)
onStatus(w, s, v) ==
    setConnectionState([w EXCEPT !.svc[s].statusLog = Append(@, v)], v)

onVolume(w, s, v) == setVolume(w, v)

onTranscript(w, s, text, role, isComplete) ==
    setTranscripts([w EXCEPT !.emitted = Append(@, [text |-> text, role |-> role,
                                                     isComplete |-> isComplete])],
                   text, role, isComplete)

(* ------------------- GeminiLiveService.disconnect ---------------------- *)
(* A call c = [id, sess, caller, at, ok, conn]: caller is who awaits it    *)
(* ("toggle", "catch" or "unmount"), at the await it is suspended at, ok   *)
(* whether the promise it awaits resolves, conn whether the session was    *)
(* connected when the call began.                                          *)
FreshId(w) ==
    LET used == {c.id : c \in w.calls}
        free == {i \in 1..(Cardinality(w.calls) + 1) : i \notin used}
    IN CHOOSE i \in free : \A j \in free : i <= j

putCall(w, c) == [w EXCEPT !.calls = {x \in @ : x.id # c.id} \cup {c}]

dropCall(w, c) == [w EXCEPT !.calls = {x \in @ : x.id # c.id}]

(* disconnect() returned: its awaiter continues.                           *)
disconnectReturn(w, c) ==
    CASE c.caller = "toggle" -> putCall(w, [c EXCEPT !.at = "toggleCont", !.ok = TRUE])
      [] c.caller = "catch" -> dropCall([w EXCEPT !.svc[c.sess].pc = "done"], c)
      [] OTHER -> dropCall(w, c)

(* disconnect() threw: the promise its awaiter holds rejects.              *)
disconnectThrow(w, c) ==
    CASE c.caller = "catch" -> dropCall([w EXCEPT !.svc[c.sess].pc = "rejected"], c)
      [] OTHER -> dropCall(w, c)

disconnectFinish(w, c) ==
    LET w1 == onStatus(w, c.sess, DISCONNECTED)
        w2 == onVolume(w1, c.sess, 0)
        w3 == [w2 EXCEPT !.svc[c.sess].torn = @ \/ c.conn]
    IN disconnectReturn(w3, c)

(* close() of an AudioContext that was already closed rejects.             *)
disconnectCloseOutput(w, c) ==
    IF w.svc[c.sess].outputAudioContext
    THEN putCall([w EXCEPT !.svc[c.sess].outCtx = "closed"],
                 [c EXCEPT !.at = "closeOut", !.ok = (w.svc[c.sess].outCtx # "closed")])
    ELSE disconnectFinish(w, c)

disconnectCloseInput(w, c) ==
    IF w.svc[c.sess].inputAudioContext
    THEN putCall([w EXCEPT !.svc[c.sess].inCtx = "closed"],
                 [c EXCEPT !.at = "closeIn", !.ok = (w.svc[c.sess].inCtx # "closed")])
    ELSE disconnectCloseOutput(w, c)

disconnectNodes(w, s) ==
    [w EXCEPT !.svc[s].inputSource = FALSE,
              !.svc[s].tap = IF w.svc[s].processor THEN FALSE ELSE @,
              !.svc[s].processor = FALSE]

stopTracks(w, s) ==
    [w EXCEPT !.svc[s].micLive = IF w.svc[s].stream THEN FALSE ELSE @,
              !.svc[s].stream = FALSE]

(* disconnect() up to its first await (or to its end).                     *)
disconnect(w, s, caller) ==
    LET sv == w.svc[s]
        c == [id |-> FreshId(w), sess |-> s, caller |-> caller, at |-> "start",
              ok |-> TRUE,
              conn |-> (Len(sv.statusLog) > 0
                        /\ sv.statusLog[Len(sv.statusLog)] = CONNECTED)]
        w1 == [w EXCEPT !.svc[s].cancelled =
                   @ \/ (caller # "catch"
                         /\ (sv.pc \in {"resumeIn", "resumeOut", "getUserMedia"}
                             \/ sv.channel = "connecting"))]
    IN disconnectCloseInput(disconnectNodes(stopTracks(w1, s), s), c)

(* disconnect() after `await this.inputAudioContext.close()`.              *)
disconnectAfterCloseInput(w, c) ==
    IF c.ok
    THEN disconnectCloseOutput([w EXCEPT !.svc[c.sess].inputAudioContext = FALSE], c)
    ELSE disconnectThrow(w, c)

(* disconnect() after `await this.outputAudioContext.close()`.             *)
disconnectAfterCloseOutput(w, c) ==
    IF c.ok
    THEN disconnectFinish([w EXCEPT !.svc[c.sess].outputAudioContext = FALSE], c)
    ELSE disconnectThrow(w, c)

(* ---------------------- GeminiLiveService.connect ---------------------- *)
(* catch (error): report ERROR, then await this.disconnect().              *)
connectCatch(w, s) ==
    LET w1 == onStatus([w EXCEPT !.svc[s].failed = TRUE, !.svc[s].pc = "catch"],
                       s, ERROR)
    IN disconnect(w1, s, "catch")

(* From the output gain node to the getUserMedia await.                    *)
connectGain(w, s) ==
    IF ~w.svc[s].outputAudioContext
    THEN connectCatch(w, s)
    ELSE [w EXCEPT !.svc[s].outputNode = TRUE, !.svc[s].pc = "getUserMedia"]

(* From the test of the output context's state onwards.                    *)
connectResumeOutput(w, s) ==
    IF ~w.svc[s].outputAudioContext
    THEN connectCatch(w, s)
    ELSE IF w.svc[s].outCtx = "suspended"
         THEN [w EXCEPT !.svc[s].pc = "resumeOut"]
         ELSE connectGain(w, s)

(* From the test of the input context's state onwards.                     *)
connectResumeInput(w, s) ==
    IF ~w.svc[s].inputAudioContext
    THEN connectCatch(w, s)
    ELSE IF w.svc[s].inCtx = "suspended"
         THEN [w EXCEPT !.svc[s].pc = "resumeIn"]
         ELSE connectResumeOutput(w, s)

(* connect() up to its first await: created is the number of AudioContext  *)
(* constructors that succeed before one throws, inState and outState are   *)
(* the states the browser creates the contexts in.                         *)
connect(w, s, created, inState, outState) ==
    LET w1 == onStatus(w, s, CONNECTING)
        w2 == [w1 EXCEPT !.svc[s].inputAudioContext = TRUE, !.svc[s].inCtx = inState]
        w3 == [w2 EXCEPT !.svc[s].outputAudioContext = TRUE, !.svc[s].outCtx = outState]
    IN CASE created = 0 -> connectCatch(w1, s)
         [] created = 1 -> connectCatch(w2, s)
         [] OTHER -> connectResumeInput(w3, s)

Resumed(state) == IF state = "suspended" THEN "running" ELSE state

connectAfterResumeInput(w, s, ok) ==
    IF ok
    THEN connectResumeOutput([w EXCEPT !.svc[s].inCtx = Resumed(@)], s)
    ELSE connectCatch(w, s)

connectAfterResumeOutput(w, s, ok) ==
    IF ok
    THEN connectGain([w EXCEPT !.svc[s].outCtx = Resumed(@)], s)
    ELSE connectCatch(w, s)

(* After getUserMedia: keep the stream and start opening the channel; the  *)
(* promise of ai.live.connect is stored, not awaited.                      *)
connectAfterGetUserMedia(w, s, ok) ==
    IF ok
    THEN [w EXCEPT !.svc[s].stream = TRUE, !.svc[s].micLive = TRUE,
                   !.svc[s].sessionPromise = TRUE, !.svc[s].channel = "connecting",
                   !.svc[s].pc = "done"]
    ELSE connectCatch(w, s)

(* --------------------- GeminiLiveService.handleOpen -------------------- *)
handleOpen(w, s) ==
    LET w1 == onStatus([w EXCEPT !.svc[s].opened = TRUE], s, CONNECTED) IN
    IF ~w1.svc[s].inputAudioContext \/ ~w1.svc[s].stream
    THEN w1
    ELSE [w1 EXCEPT !.svc[s].inputSource = TRUE, !.svc[s].processor = TRUE,
                    !.svc[s].tap = TRUE]

(* ------------------------ types.ts: PCM codec -------------------------- *)
(* The scale factors createPcmBlob multiplies by and decodeAudioData       *)
(* divides by.                                                             *)
PcmNegScale == 32768
PcmPosScale == 32767
Int16Scale == 32768

(* A sample value is the integer k that stands for k / SampleUnit, so that *)
(* the samples between two neighbouring 16-bit levels are told apart.      *)
SampleUnit == 2 * Int16Scale

(* a / b with the fraction dropped, as the store into an Int16Array does.  *)
Trunc(a, b) ==
    IF a >= 0 \/ a % b = 0 THEN a \div b ELSE (a \div b) + 1

(* The store into an Int16Array keeps the low 16 bits, two's complement.   *)
ToInt16(n) == ((n + 32768) % 65536) - 32768

(* createPcmBlob with negative samples scaled by 0x7FFF as well.           *)
createPcmSample_oneScale(x) ==
    LET s == IF x < -SampleUnit THEN -SampleUnit
             ELSE IF x > SampleUnit THEN SampleUnit ELSE x
    IN ToInt16(Trunc(s * PcmPosScale, SampleUnit))

(* createPcmBlob for one sample: clamp, scale, store as Int16.             *)
createPcmSample(x) ==
    LET s == IF x < -SampleUnit THEN -SampleUnit
             ELSE IF x > SampleUnit THEN SampleUnit ELSE x
    IN ToInt16(Trunc(IF s < 0 THEN s * PcmNegScale ELSE s * PcmPosScale,
                     SampleUnit))

(* The two bytes of an Int16Array element, low byte first.                 *)
Int16Bytes(v) == LET u == v % 65536 IN <<u % 256, u \div 256>>

BytesInt16(b) ==
    LET u == b[1] + 256 * b[2] IN IF u >= 32768 THEN u - 65536 ELSE u

(* btoa over a two-byte buffer: three 6-bit digits (and one padding sign). *)
arrayBufferToBase64(b) ==
    <<b[1] \div 4, (b[1] % 4) * 16 + b[2] \div 16, (b[2] % 16) * 4>>

base64ToUint8Array(d) ==
    <<d[1] * 4 + d[2] \div 16, (d[2] % 16) * 16 + d[3] \div 4>>

(* One element of decodeAudioData's channel data, in sample units.         *)
decodeSample(v) == v * (SampleUnit \div Int16Scale)

(* ------------------------------ types.ts ------------------------------- *)
(* decodeAudioData on a payload of `bytes` bytes: the Int16Array view of   *)
(* an odd number of bytes throws; otherwise the buffer has                 *)
(* (bytes / 2) / numChannels frames, which is also its duration in frames. *)
decodeAudioData(bytes, numChannels) ==
    IF bytes % 2 # 0
    THEN [ok |-> FALSE, duration |-> 0]
    ELSE [ok |-> TRUE, duration |-> (bytes \div 2) \div numChannels]

(* ------------------- GeminiLiveService.handleMessage ------------------- *)
(* A message m = [outputTranscription, inputTranscription, turnComplete,   *)
(* interrupted, audio]; the transcriptions are optional texts and audio is *)
(* the optional byte count of the first part's inline data.                *)
handleTranscriptions(w, s, m) ==
    IF IsSome(m.outputTranscription)
    THEN LET t == w.svc[s].currentOutputTranscription \o Val(m.outputTranscription) IN
         onTranscript([w EXCEPT !.svc[s].currentOutputTranscription = t],
                      s, t, "model", FALSE)
    ELSE IF IsSome(m.inputTranscription)
    THEN LET t == w.svc[s].currentInputTranscription \o Val(m.inputTranscription) IN
         onTranscript([w EXCEPT !.svc[s].currentInputTranscription = t],
                      s, t, "user", FALSE)
    ELSE w

(* handleTurnComplete that flushes the user string without emptying it.    *)
handleTurnComplete_keepsInput(w, s, m) ==
    IF ~m.turnComplete THEN w
    ELSE
    LET w1 == IF w.svc[s].currentInputTranscription # <<>>
              THEN onTranscript(w, s, w.svc[s].currentInputTranscription, "user", TRUE)
              ELSE w
    IN IF w1.svc[s].currentOutputTranscription # <<>>
       THEN [onTranscript(w1, s, w1.svc[s].currentOutputTranscription, "model", TRUE)
                EXCEPT !.svc[s].currentOutputTranscription = <<>>]
       ELSE w1

handleTurnComplete(w, s, m) ==
    IF ~m.turnComplete THEN w
    ELSE
    LET w1 == IF w.svc[s].currentInputTranscription # <<>>
              THEN [onTranscript(w, s, w.svc[s].currentInputTranscription, "user", TRUE)
                       EXCEPT !.svc[s].currentInputTranscription = <<>>]
              ELSE w
    IN IF w1.svc[s].currentOutputTranscription # <<>>
       THEN [onTranscript(w1, s, w1.svc[s].currentOutputTranscription, "model", TRUE)
                EXCEPT !.svc[s].currentOutputTranscription = <<>>]
       ELSE w1

(* handleInterruption that empties the model string and leaves the        *)
(* cursor where it was.                                                    *)
handleInterruption_keepsCursor(w, s, m) ==
    IF m.interrupted
    THEN [w EXCEPT !.svc[s].currentOutputTranscription = <<>>,
                   !.svc[s].interruptions = @ + 1]
    ELSE w

handleInterruption(w, s, m) ==
    IF m.interrupted
    THEN [w EXCEPT !.svc[s].nextStartTime =
                       IF w.svc[s].outputAudioContext THEN w.svc[s].outClock ELSE 0,
                   !.svc[s].currentOutputTranscription = <<>>,
                   !.svc[s].interruptions = @ + 1]
    ELSE w

(* handleMessage up to `await decodeAudioData(...)`, or to its end when    *)
(* the message carries no audio or the output context is gone.             *)
handleMessage(w, s, m) ==
    LET w0 == [w EXCEPT !.emitted = <<>>, !.lastMsg = Some(m),
                        !.svc[s].handled = @ + 1]
        w1 == handleTurnComplete(handleTranscriptions(w0, s, m), s, m)
    IN IF IsSome(m.audio) /\ Val(m.audio) > 0
          /\ w1.svc[s].outputAudioContext /\ w1.svc[s].outputNode
       THEN [w1 EXCEPT !.pending = Append(@, [sess |-> s, msg |-> m,
                                               n |-> w1.svc[s].handled])]
       ELSE handleInterruption(w1, s, m)

(* scheduleChunk that starts the chunk and leaves the cursor at its start. *)
scheduleChunk_cursorAtStart(w, s, buffer, n) ==
    IF ~buffer.ok
    THEN [w EXCEPT !.svc[s].dropped = @ + 1]
    ELSE IF ~w.svc[s].outputAudioContext
    THEN w
    ELSE LET currentTime == w.svc[s].outClock
             start == IF w.svc[s].nextStartTime < currentTime
                      THEN currentTime ELSE w.svc[s].nextStartTime
         IN [w EXCEPT !.svc[s].scheduled =
                          Append(@, [n |-> n, start |-> start,
                                     duration |-> buffer.duration,
                                     at |-> currentTime,
                                     cursor |-> w.svc[s].nextStartTime,
                                     intr |-> w.svc[s].interruptions]),
                      !.svc[s].nextStartTime = start]

(* scheduleChunk without the catch-up: the chunk starts at the cursor even *)
(* when the clock has passed it.                                           *)
scheduleChunk_noCatchUp(w, s, buffer, n) ==
    IF ~buffer.ok
    THEN [w EXCEPT !.svc[s].dropped = @ + 1]
    ELSE IF ~w.svc[s].outputAudioContext
    THEN w
    ELSE LET currentTime == w.svc[s].outClock
             start == w.svc[s].nextStartTime
         IN [w EXCEPT !.svc[s].scheduled =
                          Append(@, [n |-> n, start |-> start,
                                     duration |-> buffer.duration,
                                     at |-> currentTime,
                                     cursor |-> w.svc[s].nextStartTime,
                                     intr |-> w.svc[s].interruptions]),
                      !.svc[s].nextStartTime = start + buffer.duration]

(* The playback scheduling inside the try block, for the chunk of the n-th *)
(* message: a failed decode throws, as does reading currentTime of a       *)
(* context field that has become null, and the catch swallows either.      *)
(* Each scheduled chunk is recorded with its start and duration, the       *)
(* clock (at) and the cursor (cursor) it was scheduled at, and the number  *)
(* of interruptions handled before it (intr).                              *)
scheduleChunk(w, s, buffer, n) ==
    IF ~buffer.ok
    THEN [w EXCEPT !.svc[s].dropped = @ + 1]
    ELSE IF ~w.svc[s].outputAudioContext
    THEN w
    ELSE LET currentTime == w.svc[s].outClock
             start == IF w.svc[s].nextStartTime < currentTime
                      THEN currentTime ELSE w.svc[s].nextStartTime
         IN [w EXCEPT !.svc[s].scheduled =
                          Append(@, [n |-> n, start |-> start,
                                     duration |-> buffer.duration,
                                     at |-> currentTime,
                                     cursor |-> w.svc[s].nextStartTime,
                                     intr |-> w.svc[s].interruptions]),
                      !.svc[s].nextStartTime = start + buffer.duration]

(* handleMessage after the await without the try/catch: a failed decode    *)
(* ends the handler there.                                                 *)
handleMessageAfterDecode_noCatch(w, h) ==
    LET w0 == [w EXCEPT !.emitted = <<>>, !.pending = Tail(@)]
        buffer == decodeAudioData(Val(h.msg.audio), 1)
        w1 == scheduleChunk(w0, h.sess, buffer, h.n)
    IN IF buffer.ok THEN handleInterruption(w1, h.sess, h.msg) ELSE w1

(* handleMessage after the await.                                          *)
handleMessageAfterDecode(w, h) ==
    LET w0 == [w EXCEPT !.emitted = <<>>, !.pending = Tail(@)]
        w1 == scheduleChunk(w0, h.sess, decodeAudioData(Val(h.msg.audio), 1), h.n)
    IN handleInterruption(w1, h.sess, h.msg)

(* -------------------- handleOpen: onaudioprocess ----------------------- *)
(* One captured block whose RMS is `rms`.                                  *)
(* The block is downsampled and encoded, and once sessionPromise has       *)
(* resolved (the channel has opened) its `then` callback hands the packet  *)
(* to session.sendRealtimeInput, whatever the channel's state is by then.  *)
(* packets is the parity of the number of packets handed over.             *)
onaudioprocess(w, s, rms) ==
    LET w1 == onVolume(w, s, rms) IN
    IF w1.svc[s].sessionPromise /\ w1.svc[s].opened
    THEN [w1 EXCEPT !.svc[s].packets = (@ + 1) % 2]
    ELSE w1

(* ----------------------- App.tsx: toggleConnection --------------------- *)
toggleConnection(w, created, inState, outState) ==
    IF w.connectionState \in {CONNECTED, CONNECTING}
    THEN IF w.liveClientRef # 0
         THEN disconnect([w EXCEPT !.nOff = @ + 1], w.liveClientRef, "toggle")
         ELSE putCall(w, [id |-> FreshId(w), sess |-> 0, caller |-> "toggle",
                          at |-> "toggleCont", ok |-> TRUE, conn |-> FALSE])
    ELSE IF ~w.apiKey
    THEN [w EXCEPT !.error = TRUE]
    ELSE LET s == w.nSessions + 1
             w1 == [w EXCEPT !.error = FALSE, !.nSessions = s, !.liveClientRef = s]
         IN connect(w1, s, created, inState, outState)

(* toggleConnection after `await liveClientRef.current?.disconnect()`.     *)
toggleAfterDisconnect(w, c) == setConnectionState(dropCall(w, c), DISCONNECTED)

(* The effect cleanup that runs on unmount.                                *)
unmount(w) ==
    LET w1 == [w EXCEPT !.mounted = FALSE] IN
    IF w.liveClientRef # 0 THEN disconnect(w1, w.liveClientRef, "unmount") ELSE w1

(* ------------------------------- actions ------------------------------- *)
CtxStates == {"suspended", "running"}

(* A click on the button, which is disabled while CONNECTING.              *)
Toggle ==
    /\ mounted
    /\ connectionState # CONNECTING
    /\ connectionState = CONNECTED => nOff < MaxDisconnects
    /\ (connectionState # CONNECTED /\ apiKey) => nSessions < MaxSessions
    /\ \E created \in 0..2, inState \in CtxStates, outState \in CtxStates :
           Commit(toggleConnection(World, created, inState, outState))

Unmount ==
    /\ mounted
    /\ Commit(unmount(World))

ResumeInputSettles ==
    \E s \in Sessions, ok \in BOOLEAN :
        /\ svc[s].pc = "resumeIn"
        /\ Commit(connectAfterResumeInput(World, s, ok))

ResumeOutputSettles ==
    \E s \in Sessions, ok \in BOOLEAN :
        /\ svc[s].pc = "resumeOut"
        /\ Commit(connectAfterResumeOutput(World, s, ok))

GetUserMediaSettles ==
    \E s \in Sessions, ok \in BOOLEAN :
        /\ svc[s].pc = "getUserMedia"
        /\ Commit(connectAfterGetUserMedia(World, s, ok))

CloseInputSettles ==
    \E c \in calls :
        /\ c.at = "closeIn"
        /\ Commit(disconnectAfterCloseInput(World, c))

CloseOutputSettles ==
    \E c \in calls :
        /\ c.at = "closeOut"
        /\ Commit(disconnectAfterCloseOutput(World, c))

ToggleContinues ==
    \E c \in calls :
        /\ c.at = "toggleCont"
        /\ Commit(toggleAfterDisconnect(World, c))

(* The remote session opens: onopen.                                       *)
ChannelOpens ==
    \E s \in Sessions :
        /\ svc[s].channel = "connecting"
        /\ Commit(handleOpen([World EXCEPT !.svc[s].channel = "open"], s))

(* The promise of ai.live.connect rejects; nothing awaits it.              *)
ChannelRejects ==
    \E s \in Sessions :
        /\ svc[s].channel = "connecting"
        /\ Commit([World EXCEPT !.svc[s].channel = "failed"])

(* onerror: a transport error, after which the channel can only close.     *)
ChannelError ==
    \E s \in Sessions :
        /\ svc[s].channel \in {"connecting", "open"}
        /\ Commit(onStatus([World EXCEPT !.svc[s].channel = "errored"], s, ERROR))

(* onclose.                                                                *)
ChannelCloses ==
    \E s \in Sessions :
        /\ svc[s].channel \in {"connecting", "open", "errored"}
        /\ Commit(onStatus([World EXCEPT !.svc[s].channel = "closed"], s, DISCONNECTED))

(* onmessage with message m.                                               *)
ChannelMessage(s, m, bound) ==
    /\ svc[s].channel = "open"
    /\ svc[s].handled < bound
    /\ Commit(handleMessage(World, s, m))

DecodeSettles ==
    /\ pending # <<>>
    /\ Commit(handleMessageAfterDecode(World, Head(pending)))

(* The output context's clock advances while the context runs.            *)
AudioTick ==
    \E s \in Sessions :
        /\ svc[s].outCtx = "running"
        /\ svc[s].outClock < MaxAudioClock
        /\ Commit([World EXCEPT !.svc[s].outClock = @ + 1])

Levels == {0, 1}

CaptureBlock ==
    \E s \in Sessions, rms \in Levels :
        /\ svc[s].tap
        /\ svc[s].inCtx = "running"
        /\ Commit(onaudioprocess(World, s, rms))

Tick ==
    /\ now < MaxClock
    /\ Commit([World EXCEPT !.now = @ + 1])

(* createPcmBlob applied to the sample.                                    *)
EncodeSample ==
    /\ codec.stage = "sample"
    /\ Commit([World EXCEPT
           !.codec = [@ EXCEPT !.stage = "encoded",
                               !.int16 = createPcmSample(codec.x),
                               !.data = arrayBufferToBase64(
                                            Int16Bytes(createPcmSample(codec.x)))]])

(* base64ToUint8Array and decodeAudioData applied to the encoded sample.   *)
DecodeSample ==
    /\ codec.stage = "encoded"
    /\ Commit([World EXCEPT
           !.codec = [@ EXCEPT !.stage = "decoded",
                               !.y = decodeSample(BytesInt16(
                                         base64ToUint8Array(codec.data)))]])

(* --------------------------- specifications ---------------------------- *)
Msg(out, in, tc, intr, audio) ==
    [outputTranscription |-> out, inputTranscription |-> in, turnComplete |-> tc,
     interrupted |-> intr, audio |-> audio]

EmptyMsg == Msg(None, None, FALSE, FALSE, None)

NoSample == [stage |-> "none", x |-> 0, int16 |-> 0, data |-> <<>>, y |-> 0]

InitApp ==
    /\ mounted = TRUE
    /\ apiKey \in BOOLEAN
    /\ connectionState = DISCONNECTED
    /\ error = FALSE
    /\ liveClientRef = 0
    /\ transcripts = <<>>
    /\ volume = 0
    /\ now = 0
    /\ nOff = 0
    /\ emitted = <<>>
    /\ lastMsg = None
    /\ fragLog = <<>>

Init ==
    /\ InitApp
    /\ nSessions = 0
    /\ svc = [s \in Sessions |-> NewService]
    /\ calls = {}
    /\ pending = <<>>
    /\ codec = NoSample

(* The connection lifecycle: the UI, the promises connect() and            *)
(* disconnect() await, the channel's events, and content-free messages.    *)
Next ==
    \/ Toggle
    \/ Unmount
    \/ ResumeInputSettles
    \/ ResumeOutputSettles
    \/ GetUserMediaSettles
    \/ CloseInputSettles
    \/ CloseOutputSettles
    \/ ToggleContinues
    \/ ChannelOpens
    \/ ChannelRejects
    \/ ChannelError
    \/ ChannelCloses
    \/ \E s \in Sessions : ChannelMessage(s, EmptyMsg, MaxConnMsgs)
    \/ CaptureBlock

Spec == Init /\ [][Next]_vars

(* A session whose connect() ran to its end and whose channel then opened. *)
ConnectedService ==
    [NewService EXCEPT
        !.pc = "done", !.sessionPromise = TRUE, !.inputAudioContext = TRUE,
        !.outputAudioContext = TRUE, !.inputSource = TRUE, !.processor = TRUE,
        !.outputNode = TRUE, !.stream = TRUE, !.inCtx = "running",
        !.outCtx = "running", !.micLive = TRUE, !.tap = TRUE, !.channel = "open",
        !.statusLog = <<CONNECTING, CONNECTED>>, !.opened = TRUE]

InitConnected ==
    /\ mounted = TRUE
    /\ apiKey = TRUE
    /\ connectionState = CONNECTED
    /\ error = FALSE
    /\ liveClientRef = 1
    /\ transcripts = <<>>
    /\ volume = 0
    /\ now = 0
    /\ nOff = 0
    /\ emitted = <<>>
    /\ lastMsg = None
    /\ fragLog = <<>>
    /\ nSessions = 1
    /\ svc = [s \in Sessions |-> IF s = 1 THEN ConnectedService ELSE NewService]
    /\ calls = {}
    /\ pending = <<>>
    /\ codec = NoSample

(* The transcript stream of one connected session: messages that carry     *)
(* transcription fragments, turn completion and interruption.              *)
OutFrags == {<<"m">>}
InFrags == {<<"u">>}
Opt(S) == {None} \cup {Some(x) : x \in S}
TextMessages ==
    {Msg(out, in, tc, intr, None) :
        out \in Opt(OutFrags), in \in Opt(InFrags), tc \in BOOLEAN,
        intr \in BOOLEAN}

NextMsg ==
    \/ \E m \in TextMessages : ChannelMessage(1, m, MaxMsgs)
    \/ Tick

SpecMsg == InitConnected /\ [][NextMsg]_vars

(* The audio stream of one connected session: messages that carry a chunk  *)
(* of 1 (undecodable), 2 or 4 bytes and an interruption or neither, and    *)
(* messages that carry one transcription fragment.                         *)
AudioBytes == {1, 2, 4}
AudioMessages ==
    {Msg(None, None, FALSE, intr, audio) :
        intr \in BOOLEAN, audio \in Opt(AudioBytes)}
    \cup {Msg(Some(x), None, FALSE, FALSE, None) : x \in OutFrags}
    \cup {Msg(None, Some(x), FALSE, FALSE, None) : x \in InFrags}

NextAudio ==
    \/ \E m \in AudioMessages : ChannelMessage(1, m, MaxAudioMsgs)
    \/ DecodeSettles
    \/ AudioTick

SpecAudio == InitConnected /\ [][NextAudio]_vars

(* The same stream while the component may unmount and tear the session   *)
(* down.                                                                   *)
NextTeardown ==
    \/ \E m \in AudioMessages : ChannelMessage(1, m, MaxAudioMsgs)
    \/ DecodeSettles
    \/ AudioTick
    \/ Unmount
    \/ CloseInputSettles
    \/ CloseOutputSettles

SpecTeardown == InitConnected /\ [][NextTeardown]_vars

(* The PCM codec on its own: every sample value on a grid of half a       *)
(* 16-bit level from just below -1 to just above 1 is encoded and the      *)
(* result decoded.                                                         *)
Samples == (-(SampleUnit + MaxOver))..(SampleUnit + MaxOver)

InitCodec ==
    /\ InitApp
    /\ nSessions = 0
    /\ svc = [s \in Sessions |-> NewService]
    /\ calls = {}
    /\ pending = <<>>
    /\ codec \in {[NoSample EXCEPT !.stage = "sample", !.x = k] : k \in Samples}

NextCodec ==
    \/ EncodeSample
    \/ DecodeSample

SpecCodec == InitCodec /\ [][NextCodec]_vars

(* handleTranscript on its own, given any text, role and completeness.     *)
Hi == <<"Hi">>
HiThere == <<"Hi", " there">>
Hello == <<"Hello">>
FragTexts == {Hi, HiThere, Hello}

OnFragment ==
    \E text \in FragTexts, role \in Roles, isFinal \in BOOLEAN :
        /\ Len(fragLog) < MaxFrags
        /\ Commit([World EXCEPT
               !.transcripts = handleTranscript(@, text, role, isFinal, now),
               !.fragLog = Append(@, [text |-> text, role |-> role,
                                      isFinal |-> isFinal])])

NextFrag ==
    \/ OnFragment
    \/ Tick

InitFrag == Init /\ apiKey = TRUE

SpecFrag == InitFrag /\ [][NextFrag]_vars

(* ------------------------------ properties ----------------------------- *)
LastStatus(s) ==
    IF svc[s].statusLog = <<>> THEN "none"
    ELSE svc[s].statusLog[Len(svc[s].statusLog)]

CtxOpen(state) == state \in {"suspended", "running"}

ChannelLive(s) == svc[s].channel \in {"connecting", "open"}

(* Session s holds a live resource.                                        *)
Live(s) ==
    \/ svc[s].micLive
    \/ svc[s].tap
    \/ CtxOpen(svc[s].inCtx)
    \/ CtxOpen(svc[s].outCtx)
    \/ ChannelLive(s)

(* The microphone, the capture tap and both contexts are released.         *)
DevicesReleased(s) ==
    /\ ~svc[s].micLive
    /\ ~svc[s].tap
    /\ ~CtxOpen(svc[s].inCtx)
    /\ ~CtxOpen(svc[s].outCtx)

(* No connect() or disconnect() of session s is in progress.               *)
Settled(s) ==
    /\ svc[s].pc \in {"none", "done", "rejected"}
    /\ \A c \in calls : c.sess # s

(* C1: a disconnect() invoked while connect() was still in progress        *)
(* leaves, once both calls have settled, a session without live resources  *)
(* whose last delivered status is Disconnected.                            *)
C1_CancelDuringConnect ==
    \A s \in Sessions :
        (svc[s].cancelled /\ Settled(s))
            => (~Live(s) /\ LastStatus(s) = DISCONNECTED)

C2_TornDownState ==
    \A s \in Sessions :
        svc[s].torn => (DevicesReleased(s) /\ svc[s].channel # "open")

C2_NoMessageAfterTeardown ==
    \A s \in Sessions : svc[s].torn => svc'[s].handled = svc[s].handled

(* C2: once disconnect() has completed on a connected session, the         *)
(* microphone is stopped, the tap detached, both contexts closed and the   *)
(* channel closed, and no further message of the session is handled.       *)
C2_FullTeardown == [](C2_TornDownState) /\ [][C2_NoMessageAfterTeardown]_vars

(* C3: at most one session holds live resources.                           *)
C3_OneLiveSession == Cardinality({s \in Sessions : Live(s)}) <= 1

(* C4: when a step of connect() has failed, Error is the last status the   *)
(* session delivered once its calls have settled.                          *)
C4_FailureEndsInError ==
    \A s \in Sessions :
        ((svc[s].failed \/ svc[s].channel = "failed") /\ Settled(s))
            => LastStatus(s) = ERROR

(* C5: after a channel failure during connect (rejected connect promise or *)
(* error callback before the channel opened) the devices are released.     *)
C5_ChannelFailureTeardown ==
    \A s \in Sessions :
        (svc[s].channel \in {"failed", "errored"} /\ ~svc[s].opened /\ Settled(s))
            => DevicesReleased(s)

(* C6: a session delivers Connected only right after Connecting, and never *)
(* after it has delivered Disconnected or Error.                           *)
C6_StatusStateMachine ==
    \A s \in Sessions : \A i \in DOMAIN svc[s].statusLog :
        svc[s].statusLog[i] = CONNECTED =>
            /\ i > 1
            /\ svc[s].statusLog[i - 1] = CONNECTING
            /\ \A j \in 1..(i - 1) : svc[s].statusLog[j] \notin {DISCONNECTED, ERROR}

IsPrefix(a, b) == Len(a) <= Len(b) /\ SubSeq(b, 1, Len(a)) = a

(* No turn of the list repeats the role and text of an earlier one.        *)
NoDuplicateTurn ==
    \A i, j \in DOMAIN transcripts :
        i < j => ~(transcripts[i].role = transcripts[j].role
                   /\ transcripts[i].text = transcripts[j].text)

(* C7: right after a turn-completion signal has been handled, with no      *)
(* interruption so far, every turn of the list is complete and none        *)
(* duplicates another.                                                     *)
C7_AllTurnsComplete ==
    (IsSome(lastMsg) /\ Val(lastMsg).turnComplete /\ svc[1].interruptions = 0)
        => /\ \A i \in DOMAIN transcripts : transcripts[i].isComplete
           /\ NoDuplicateTurn

C8_TextGrowsStep ==
    \A i \in DOMAIN transcripts :
        ~transcripts[i].isComplete
            => (i \in DOMAIN transcripts'
                /\ IsPrefix(transcripts[i].text, transcripts'[i].text))

(* C8: the text of an incomplete turn only grows: every step leaves it a   *)
(* prefix of the turn's new text.                                          *)
C8_TextOnlyGrows == [][C8_TextGrowsStep]_vars

(* C9: the ids of the turns in the list are pairwise distinct.             *)
C9_UniqueIds ==
    \A i, j \in DOMAIN transcripts : i # j => transcripts[i].id # transcripts[j].id

Scenario ==
    << [text |-> Hi, role |-> "user", isFinal |-> FALSE],
       [text |-> HiThere, role |-> "user", isFinal |-> FALSE],
       [text |-> HiThere, role |-> "user", isFinal |-> TRUE],
       [text |-> Hello, role |-> "model", isFinal |-> FALSE] >>

C10_CoalesceStep ==
    LET n == Len(transcripts) IN
    (fragLog' # fragLog /\ n > 0
     /\ transcripts[n].role = fragLog'[Len(fragLog')].role
     /\ ~transcripts[n].isComplete)
        => /\ Len(transcripts') = n
           /\ transcripts'[n].id = transcripts[n].id
           /\ transcripts'[n].role = transcripts[n].role
           /\ transcripts'[n].text = fragLog'[Len(fragLog')].text
           /\ transcripts'[n].isComplete = fragLog'[Len(fragLog')].isFinal

C10_ScenarioResult ==
    fragLog = Scenario
        => /\ Len(transcripts) = 2
           /\ transcripts[1].role = "user" /\ transcripts[1].text = HiThere
           /\ transcripts[1].isComplete
           /\ transcripts[2].role = "model" /\ transcripts[2].text = Hello
           /\ ~transcripts[2].isComplete

(* C10: a fragment for the role of an incomplete last turn updates that    *)
(* turn in place (same count, id and role; the given text and              *)
(* completeness), and the sequence Hi, Hi there, Hi there (final), Hello   *)
(* yields the two turns {user, Hi there, complete}, {model, Hello,         *)
(* incomplete}.                                                            *)
C10_Coalescing == [][C10_CoalesceStep]_vars /\ [](C10_ScenarioResult)

C10_Witness ==
    /\ fragLog = Scenario
    /\ Len(transcripts) = 2
    /\ transcripts[1].id # transcripts[2].id

C11_FrozenStep ==
    /\ \A i \in DOMAIN transcripts :
           transcripts[i].isComplete
               => (i \in DOMAIN transcripts' /\ transcripts'[i] = transcripts[i])
    /\ LET n == Len(transcripts) IN
       (fragLog' # fragLog /\ n > 0 /\ transcripts[n].isComplete)
           => /\ Len(transcripts') = n + 1
              /\ SubSeq(transcripts', 1, n) = transcripts
              /\ transcripts'[n + 1].role = fragLog'[Len(fragLog')].role
              /\ transcripts'[n + 1].text = fragLog'[Len(fragLog')].text
              /\ transcripts'[n + 1].isComplete = fragLog'[Len(fragLog')].isFinal

(* C11: a complete turn is frozen: no step changes the id, role, text or   *)
(* completeness of a turn that is complete, and a fragment that arrives    *)
(* when the last turn is complete appends a new turn with the fragment's   *)
(* role, text and completeness and leaves every existing turn unchanged.   *)
C11_CompleteTurnFrozen == [][C11_FrozenStep]_vars

(* A fragment of the first turn's own role arrived after that turn was     *)
(* complete, and a further fragment arrived after the second was complete. *)
C11_Witness ==
    /\ Len(transcripts) = 3
    /\ transcripts[1].isComplete /\ transcripts[2].isComplete
    /\ transcripts[2].role = transcripts[1].role
    /\ transcripts[3].role # transcripts[2].role

IsFinal(e) == e.isComplete

(* The accumulation string of a role when the flush of a message runs: the *)
(* text of the fragment callback the same message emitted for the role, or *)
(* else the string as it was before the message.                           *)
AtFlush(role, before) ==
    IF emitted' # <<>> /\ ~emitted'[1].isComplete /\ emitted'[1].role = role
    THEN emitted'[1].text ELSE before

FlushOf(role, text) ==
    IF text # <<>> THEN <<[text |-> text, role |-> role, isComplete |-> TRUE]>>
    ELSE <<>>

C12_FlushStep ==
    (svc'[1].handled = svc[1].handled + 1 /\ Val(lastMsg').turnComplete)
        => /\ SelectSeq(emitted', IsFinal)
                = FlushOf("user", AtFlush("user", svc[1].currentInputTranscription))
                  \o FlushOf("model", AtFlush("model", svc[1].currentOutputTranscription))
           /\ svc'[1].currentInputTranscription = <<>>
           /\ svc'[1].currentOutputTranscription = <<>>

(* C12: handling a message with turnComplete emits exactly one callback    *)
(* with isComplete = TRUE for each role whose accumulation string is not   *)
(* empty, carrying the whole string, none for a role whose string is       *)
(* empty, and leaves both accumulation strings empty.                      *)
C12_TurnCompleteFlush == [][C12_FlushStep]_vars

(* A completion that flushed both roles, the user string holding two       *)
(* fragments.                                                              *)
C12_Witness ==
    /\ IsSome(lastMsg) /\ Val(lastMsg).turnComplete
    /\ Len(SelectSeq(emitted, IsFinal)) = 2
    /\ \E i \in DOMAIN emitted : emitted[i].isComplete /\ Len(emitted[i].text) = 2

C13_InterruptionStep ==
    svc'[1].interruptions = svc[1].interruptions + 1
        => /\ svc'[1].currentOutputTranscription = <<>>
           /\ svc'[1].nextStartTime = svc[1].outClock
           /\ emitted' = <<>>
           /\ svc'[1].currentInputTranscription = svc[1].currentInputTranscription
           /\ transcripts' = transcripts

C14_Gapless ==
    \A i \in 2..Len(svc[1].scheduled) :
        LET a == svc[1].scheduled[i - 1]
            b == svc[1].scheduled[i]
        IN (b.intr = a.intr /\ b.at <= b.cursor) => b.start = a.start + a.duration

(* Three chunks back to back, the clock advancing between them.            *)
C14_Witness ==
    /\ Len(svc[1].scheduled) = 3
    /\ \A i \in 2..3 :
           /\ svc[1].scheduled[i].intr = svc[1].scheduled[i - 1].intr
           /\ svc[1].scheduled[i].at <= svc[1].scheduled[i].cursor
           /\ svc[1].scheduled[i].at > svc[1].scheduled[i - 1].at
           /\ svc[1].scheduled[i - 1].duration > 0

Last(q) == q[Len(q)]

C15_CatchUpStep ==
    (Len(svc'[1].scheduled) = Len(svc[1].scheduled) + 1
     /\ svc[1].nextStartTime < svc[1].outClock)
        => /\ Last(svc'[1].scheduled).start = svc[1].outClock
           /\ ~Head(pending).msg.interrupted
                  => svc'[1].nextStartTime
                         = svc[1].outClock + Last(svc'[1].scheduled).duration

(* C15: catch-up: a chunk scheduled while the cursor is behind the clock   *)
(* starts at the clock, and the cursor is then the clock plus the chunk's  *)
(* duration (until the interruption of the same message, if it carries     *)
(* one, resets it).                                                        *)
C15_CatchUp == [][C15_CatchUpStep]_vars

(* A chunk scheduled after the clock had passed the end of the chunk       *)
(* before it.                                                              *)
C15_Witness ==
    /\ Len(svc[1].scheduled) = 2
    /\ svc[1].scheduled[2].cursor > 0
    /\ svc[1].scheduled[2].cursor < svc[1].scheduled[2].at
    /\ svc[1].scheduled[2].start = svc[1].scheduled[2].at
    /\ svc[1].nextStartTime = svc[1].scheduled[2].at + svc[1].scheduled[2].duration

C16_CursorWriteStep ==
    (svc'[1].interruptions # svc[1].interruptions
     \/ Len(svc'[1].scheduled) # Len(svc[1].scheduled))
        => /\ svc'[1].nextStartTime >= svc'[1].outClock
           /\ Len(svc'[1].scheduled) # Len(svc[1].scheduled)
                  => Last(svc'[1].scheduled).start >= Last(svc'[1].scheduled).at

(* C16: every write of the cursor, by scheduling a chunk or by handling an *)
(* interruption, with the playback context alive or torn down, stores a    *)
(* value that is not below the output clock, and no chunk starts in the    *)
(* past.                                                                   *)
C16_CursorNotBehindClock == [][C16_CursorWriteStep]_vars

(* C17: chunks play in arrival order: of two scheduled chunks, the one     *)
(* whose message arrived first was scheduled first and does not start      *)
(* after the other.                                                        *)
C17_ArrivalOrder ==
    \A i, j \in DOMAIN svc[1].scheduled :
        svc[1].scheduled[i].n < svc[1].scheduled[j].n
            => /\ i < j
               /\ svc[1].scheduled[i].start <= svc[1].scheduled[j].start

C18_DropStep ==
    svc'[1].dropped = svc[1].dropped + 1
        => svc'[1] = IF Head(pending).msg.interrupted
                     THEN [svc[1] EXCEPT !.dropped = @ + 1,
                                         !.interruptions = @ + 1,
                                         !.nextStartTime = svc[1].outClock,
                                         !.currentOutputTranscription = <<>>]
                     ELSE [svc[1] EXCEPT !.dropped = @ + 1]

(* C18: a chunk whose decode fails is dropped alone: nothing is scheduled  *)
(* for it and the cursor is not moved by it, the handler goes on to the    *)
(* interruption of the same message, and the session is otherwise as if    *)
(* the chunk had not arrived, so later chunks are scheduled as without it. *)
C18_DecodeFailureDropsChunk == [][C18_DropStep]_vars

(* An undecodable chunk arrived between two chunks that were scheduled     *)
(* back to back.                                                           *)
C18_Witness ==
    /\ svc[1].dropped = 1
    /\ Len(svc[1].scheduled) = 2
    /\ svc[1].scheduled[1].n = 1 /\ svc[1].scheduled[2].n = 3
    /\ svc[1].scheduled[2].start
           = svc[1].scheduled[1].start + svc[1].scheduled[1].duration

(* disconnect() is called on session s in this step, by a click on Stop or *)
(* by the unmount cleanup.                                                 *)
DisconnectCalled(s) ==
    /\ liveClientRef = s
    /\ (mounted /\ ~mounted') \/ nOff' = nOff + 1

(* The fields disconnect() tests are all null: the session never acquired  *)
(* anything or has been disconnected already.                              *)
NothingHeld(sv) ==
    /\ ~sv.stream /\ ~sv.inputSource /\ ~sv.processor
    /\ ~sv.inputAudioContext /\ ~sv.outputAudioContext

(* Every field that holds a resource of the session is null: the stream,   *)
(* the nodes, both contexts and the channel's session.                     *)
ResourceFieldsNull(sv) ==
    /\ NothingHeld(sv)
    /\ ~sv.outputNode
    /\ ~sv.sessionPromise

C19_RepeatedDisconnectStep ==
    \A s \in Sessions :
        (DisconnectCalled(s) /\ NothingHeld(svc[s]) /\ Settled(s))
            => /\ \A c \in calls' : c.sess = s => c.at = "toggleCont"
               /\ svc'[s].statusLog = Append(svc[s].statusLog, DISCONNECTED)
               /\ svc'[s].micLive = svc[s].micLive /\ svc'[s].tap = svc[s].tap
               /\ svc'[s].inCtx = svc[s].inCtx /\ svc'[s].outCtx = svc[s].outCtx
               /\ svc'[s].channel = svc[s].channel
               /\ mounted' => volume' = 0
               /\ ResourceFieldsNull(svc'[s])

(* C19: disconnect() called on a session that never acquired anything or   *)
(* has been disconnected already runs to its end without an error and      *)
(* without releasing anything, and leaves the state a single call leaves:  *)
(* all resource fields null, the status Disconnected, the volume 0.        *)
C19_DisconnectIdempotent == [][C19_RepeatedDisconnectStep]_vars

Abs(n) == IF n < 0 THEN -n ELSE n

(* One 16-bit level, 1/32768, in sample units.                             *)
Level == SampleUnit \div Int16Scale

InRange(x) == -SampleUnit <= x /\ x <= SampleUnit

(* C20 as claimed: the round trip of a sample in [-1, 1] is within 1/32768 *)
(* of the sample, and the encoded value lies in [-32768, 32767].           *)
C20_RoundTripWithinOneLevel ==
    /\ codec.stage # "none" => codec.int16 \in -32768..32767
    /\ (codec.stage = "decoded" /\ InRange(codec.x))
           => Abs(codec.y - codec.x) <= Level

(* C20 amended: the round trip of a sample in [-1, 1] is less than 2/32768 *)
(* away from the sample, and within 1/32768 of it when the sample is not   *)
(* positive; the encoded value lies in [-32768, 32767].                    *)
C20_RoundTripWithinTwoLevels ==
    /\ codec.stage # "none" => codec.int16 \in -32768..32767
    /\ (codec.stage = "decoded" /\ InRange(codec.x))
           => /\ Abs(codec.y - codec.x) < 2 * Level
              /\ codec.x <= 0 => Abs(codec.y - codec.x) <= Level

(* A sample just below 1 came back more than one level away.               *)
C20_Witness ==
    /\ codec.stage = "decoded"
    /\ InRange(codec.x)
    /\ Abs(codec.y - codec.x) > Level

(* No message is handled while the handling of an earlier one is           *)
(* suspended at the decode.                                                *)
C21_NoHandlingInBetween ==
    pending # <<>> => svc'[1].handled = svc[1].handled

(* A handler that resumes after a later message brought a model fragment   *)
(* leaves that fragment in the model string.                               *)
C21_LaterFragmentKept ==
    (Len(pending') < Len(pending)
     /\ Head(pending).n < svc[1].handled
     /\ IsSome(Val(lastMsg).outputTranscription))
        => svc'[1].currentOutputTranscription # <<>>

(* C21: a message is handled atomically: no other message is handled      *)
(* between its arrival and the end of its handler, so the interruption     *)
(* reset of a handler suspended at the decode never erases the fragment of *)
(* a message that arrived later.                                           *)
C21_AtomicHandling ==
    [][C21_NoHandlingInBetween /\ C21_LaterFragmentKept]_vars

(* The callbacks with isComplete = FALSE that the last step emitted for a  *)
(* role.                                                                   *)
Updates(role) ==
    SelectSeq(emitted', LAMBDA e : ~e.isComplete /\ e.role = role)

C22_Routed(fragment, role, before) ==
    IF IsSome(fragment)
    THEN Updates(role) = <<[text |-> before \o Val(fragment), role |-> role,
                            isComplete |-> FALSE]>>
    ELSE Updates(role) = <<>>

C22_RoutingStep ==
    svc'[1].handled = svc[1].handled + 1
        => /\ C22_Routed(Val(lastMsg').outputTranscription, "model",
                         svc[1].currentOutputTranscription)
           /\ C22_Routed(Val(lastMsg').inputTranscription, "user",
                         svc[1].currentInputTranscription)

(* C22: each transcription fragment a message carries, of the user, of the *)
(* model or of both, is appended to its role's string and reported by one  *)
(* callback with isComplete = FALSE that carries the whole string.         *)
C22_EveryFragmentRouted == [][C22_RoutingStep]_vars

(* C23: overlapping disconnect() calls release each resource once: no call *)
(* invokes close() on a context that a close() was already invoked on,     *)
(* which is the one way a disconnect() call ends in an error.              *)
C23_CloseAtMostOnce ==
    \A c \in calls : c.at \in {"closeIn", "closeOut"} => c.ok

(* The last status session s delivered is Disconnected and none of its     *)
(* disconnect() calls is in progress.                                      *)
ShownDisconnected(s) ==
    /\ LastStatus(s) = DISCONNECTED
    /\ \A c \in calls : c.sess # s

C24_NoCaptureWhenDisconnected ==
    \A s \in Sessions :
        ShownDisconnected(s) => ~svc[s].micLive /\ ~svc[s].tap

C24_PacketStep ==
    \A s \in Sessions :
        svc'[s].packets # svc[s].packets
            => svc[s].opened /\ ~ShownDisconnected(s)

(* C24: while the last status a session delivered is Disconnected and no   *)
(* disconnect() of it is in progress, its microphone is not live and its   *)
(* capture tap is not attached, so it processes no block and sends no      *)
(* packet; and a session sends packets only once its channel has opened.   *)
C24_StateGatesCapture ==
    [](C24_NoCaptureWhenDisconnected) /\ [][C24_PacketStep]_vars

====
